---- MODULE Spec2Model ----
(***************************************************************************)
(* A model of pygdf/dataframe.py: the fixed-capacity Buffer, the Series    *)
(* (data buffer + optional null bitmask + cached null_count) and the       *)
(* DataFrame (ordered name -> Series mapping with a row count).            *)
(*                                                                         *)
(* Three specifications share the module:                                  *)
(*   Spec        DataFrame operations on a small set of tables             *)
(*   SpecBuffer  Buffer construction, append, extend and integer indexing  *)
(*   SpecSeries  Series construction, set_mask, slicing and indexing       *)
(*                                                                         *)
(* Optional values (Python None) are sequences of length <= 1: <<>> is     *)
(* None and <<v>> is the value v.                                          *)
(***************************************************************************)
EXTENDS Integers, Sequences, FiniteSets, TLC

VARIABLES
    dfs,      \* DataFrame spec: table id -> DataFrame object
    last,     \* DataFrame spec: the last call, its inputs and its outcome
    ret,      \* DataFrame spec: the table returned by the last call, if any
    buf,      \* Buffer spec: the Buffer object
    cap0,     \* Buffer spec: the capacity the Buffer was constructed with
    bhist,    \* Buffer spec: the last calls on the Buffer (newest last)
    ser,      \* Series spec: the Series object
    given,    \* Series spec: whether ser's null_count was passed explicitly
    sop       \* Series spec: the last call on the Series and its result

vars == <<dfs, last, ret, buf, cap0, bhist, ser, given, sop>>

dfVars == <<dfs, last, ret>>
bufVars == <<buf, cap0, bhist>>
serVars == <<ser, given, sop>>

---------------------------------------------------------------------------
(* Bounds of the model *)

\* largest capacity of a Buffer built by from_empty
MaxCap == 3
\* largest number of rows of a Series in SpecSeries
MaxRows == 10
\* largest number of argument tables of DataFrame.concat
MaxArgs == 2
\* largest number of categories of DataFrame.one_hot_encoding
MaxCats == 2

---------------------------------------------------------------------------
(* Generic helpers *)

Min(a, b) == IF a < b THEN a ELSE b

Max(a, b) == IF a > b THEN a ELSE b

None == <<>>

Some(v) == <<v>>

\* Python slice semantics on a sequence: s[start:stop:step] for step >= 1,
\* start/stop optional and possibly negative (slice.indices).
SliceBound(opt, n, dflt) ==
    IF opt = None THEN dflt
    ELSE IF opt[1] < 0 THEN Max(opt[1] + n, 0) ELSE Min(opt[1], n)

PySlice(s, sl) ==
    LET n   == Len(s)
        st  == IF sl.step = None THEN 1 ELSE sl.step[1]
        a   == SliceBound(sl.start, n, 0)
        b   == SliceBound(sl.stop, n, n)
        cnt == IF b > a THEN (b - a + st - 1) \div st ELSE 0
    IN  [i \in 1..cnt |-> s[a + (i - 1) * st + 1]]

UpTo(n) == [start |-> None, stop |-> Some(n), step |-> None]

---------------------------------------------------------------------------
(* dtypes and casting (cudautils.astype / numpy casting) *)

Dtypes == {"int8", "int64"}

\* C-style cast of one value: int8 keeps the low 8 bits (two's complement).
Cast(v, dtype) ==
    IF dtype = "int8" THEN ((v + 128) % 256) - 128
    ELSE IF dtype = "uint8" THEN v % 256
    ELSE v

\* cudautils.astype(array, dtype): element-wise cast into an array of dtype
AsType(arr, dtype) ==
    [dtype |-> dtype, data |-> [i \in 1..Len(arr.data) |-> Cast(arr.data[i], dtype)]]

---------------------------------------------------------------------------
(* Buffer *)

\* Buffer.__init__(mem, size=None, capacity=None)
BufferNew(mem, size, capacity) ==
    LET sz  == IF size = None THEN Len(mem.data) ELSE size[1]
        cap == IF capacity = None THEN sz ELSE capacity[1]
    IN  [mem |-> mem.data, size |-> sz, capacity |-> cap, dtype |-> mem.dtype]

\* Buffer(array): size = capacity = len(array)
BufferFromArray(arr) == BufferNew(arr, None, None)

\* Buffer.from_empty(mem): size 0, capacity = mem.size
BufferFromEmpty(mem) == BufferNew(mem, Some(0), Some(Len(mem.data)))

\* Buffer.avail_space
AvailSpace(b) == b.capacity - b.size

\* a mutant of SentryCapacity: off by one
SentryCapacityOffByOne(b, size_needed) == size_needed > AvailSpace(b) + 1

\* Buffer._sentry_capacity: TRUE when it raises MemoryError
SentryCapacity(b, size_needed) == size_needed > AvailSpace(b)

\* Buffer.to_gpu_array: mem[:size]
ToGpuArray(b) == PySlice(b.mem, UpTo(b.size))

\* dst.copy_to_device(src) on device arrays: the leading elements of dst
\* are overwritten by src
CopyToDevice(mem, at, src) ==
    [i \in 1..Len(mem) |->
        IF i > at /\ i - at <= Len(src) THEN src[i - at] ELSE mem[i]]

\* a mutant of BufferExtend: the elements are written without being cast
BufferExtendNoCast(b, arr) ==
    IF SentryCapacity(b, Len(arr.data))
    THEN [err |-> "MemoryError", buf |-> b]
    ELSE [err |-> "ok",
          buf |-> [b EXCEPT !.mem = CopyToDevice(b.mem, b.size, arr.data),
                            !.size = @ + Len(arr.data)]]

\* a mutant of BufferExtend: the array is written, and size advanced, as
\* far as the space allows before the capacity check raises
BufferExtendWriteFirst(b, arr) ==
    LET needed == Len(arr.data)
        fits   == Min(needed, Max(AvailSpace(b), 0))
        wrote  == [b EXCEPT
                     !.mem = CopyToDevice(b.mem, b.size, AsType(arr, b.dtype).data),
                     !.size = @ + fits]
    IN  IF SentryCapacity(b, needed)
        THEN [err |-> "MemoryError", buf |-> wrote]
        ELSE [err |-> "ok", buf |-> wrote]

\* Buffer.extend(array)
BufferExtend(b, arr) ==
    LET needed == Len(arr.data)
    IN  IF SentryCapacity(b, needed)
        THEN [err |-> "MemoryError", buf |-> b]
        ELSE [err |-> "ok",
              buf |-> [b EXCEPT
                         !.mem = CopyToDevice(b.mem, b.size, AsType(arr, b.dtype).data),
                         !.size = @ + needed]]

\* Buffer.append(element)
BufferAppend(b, element) ==
    IF SentryCapacity(b, 1)
    THEN [err |-> "MemoryError", buf |-> b]
    ELSE BufferExtend(b, [dtype |-> b.dtype, data |-> <<Cast(element, b.dtype)>>])

\* reading element a of a device array: a negative index counts from the
\* end of the array, an index outside the array raises IndexError
MemRead(mem, a) ==
    IF a >= Len(mem) \/ a < 0 - Len(mem)
    THEN [kind |-> "IndexError", val |-> 0]
    ELSE [kind |-> "value", val |-> mem[(IF a < 0 THEN a + Len(mem) ELSE a) + 1]]

\* Buffer.__getitem__(arg) for an integer arg
BufferGetItem(b, arg) ==
    LET a == IF arg < 0 THEN b.size + arg ELSE arg
    IN  IF a >= b.size
        THEN [kind |-> "IndexError", val |-> 0]
        ELSE MemRead(b.mem, a)

\* Buffer.__getitem__(arg) for a slice arg: Buffer(self.to_gpu_array()[arg])
BufferGetSlice(b, sl) ==
    BufferFromArray([dtype |-> b.dtype, data |-> PySlice(ToGpuArray(b), sl)])

---------------------------------------------------------------------------
(* Null bitmask helpers (utils / cudautils) *)

Arr(dtype, data) == [dtype |-> dtype, data |-> data]

\* utils.mask_bitsize: rows per mask element
MaskBitsize == 8

\* utils.mask_dtype
MaskDtype == "uint8"

\* utils.calc_chunk_size(size, chunksize): ceil(size / chunksize)
CalcChunkSize(size, chunksize) == (size + chunksize - 1) \div chunksize

\* bit k of a mask element: (byte >> k) & 1
BitOf(byte, k) == (byte \div (2 ^ k)) % 2

RECURSIVE PackByte(_, _, _)
\* the mask element j (0-based) of a boolean array, bits k..7
PackByte(valid, j, k) ==
    IF k >= MaskBitsize THEN 0
    ELSE (IF MaskBitsize * j + k < Len(valid) /\ valid[MaskBitsize * j + k + 1]
          THEN 2 ^ k ELSE 0) + PackByte(valid, j, k + 1)

\* utils.boolmask_to_bitmask(bool_array): bit idx % 8 of element idx / 8
\* is 1 iff row idx is valid; the padding bits are 0
BoolmaskToBitmask(valid) ==
    Arr(MaskDtype,
        [j \in 1..CalcChunkSize(Len(valid), MaskBitsize) |-> PackByte(valid, j - 1, 0)])

\* cudautils.count_nonzero_mask(mask): the number of set bits of the mask
\* array (it is given the array alone, not the number of rows)
CountNonzeroMask(mem) ==
    Cardinality({jk \in (1..Len(mem)) \X (0..(MaskBitsize - 1)) :
                    BitOf(Cast(mem[jk[1]], MaskDtype), jk[2]) = 1})

\* cudautils.mask_get(mask, pos) on a mask Buffer:
\* (mask[pos // 8] >> (pos % 8)) & 1, the element read through
\* Buffer.__getitem__
MaskGet(mask, pos) ==
    LET b == BufferGetItem(mask, pos \div MaskBitsize)
    IN  IF b.kind = "IndexError" THEN b
        ELSE [kind |-> "value", val |-> BitOf(b.val, pos % MaskBitsize)]

---------------------------------------------------------------------------
(* Series *)

\* Series.__init__(size, dtype, buffer, mask, null_count)
SeriesNew(size, dtype, buffer, mask, null_count) ==
    [size  |-> size,
     dtype |-> dtype,
     data  |-> buffer,
     mask  |-> mask,
     null_count |->
        IF null_count = None
        THEN IF mask # None
             THEN size - CountNonzeroMask(mask[1].mem)
             ELSE 0
        ELSE null_count[1]]

\* Series.from_buffer(buffer)
SeriesFromBuffer(buffer) ==
    SeriesNew(buffer.size, buffer.dtype, buffer, None, None)

\* Series.from_array(array)
SeriesFromArray(arr) == SeriesFromBuffer(BufferFromArray(arr))

\* Series.set_mask(mask, null_count=None) for a mask array of bytes
SetMask(s, mask, null_count) ==
    SeriesNew(s.size, s.dtype, s.data, Some(BufferFromArray(mask)), null_count)

\* Series.from_masked_array(data, mask, null_count=None)
SeriesFromMaskedArray(data, mask, null_count) ==
    SetMask(SeriesFromArray(data), mask, null_count)

\* Series.__len__
SeriesLen(s) == s.size

\* Series.has_null_mask
HasNullMask(s) == s.mask # None

\* `x if x else dflt` for an optional integer: None and 0 give dflt
OrElse(opt, dflt) == IF opt = None \/ opt[1] = 0 THEN dflt ELSE opt[1]

\* the mask slice of Series.__getitem__:
\* slice(calc_chunk_size(start, 8), calc_chunk_size(stop, 8))
MaskSlice(s, sl) ==
    [start |-> Some(CalcChunkSize(OrElse(sl.start, 0), MaskBitsize)),
     stop  |-> Some(CalcChunkSize(OrElse(sl.stop, SeriesLen(s)), MaskBitsize)),
     step  |-> None]

\* a mutant of SeriesGetSlice: the mask is carried over unsliced
SeriesGetSliceKeepMask(s, sl) ==
    IF s.null_count > 0
    THEN IF sl.step # None /\ sl.step[1] # 1
         THEN [err |-> "NotImplementedError", out |-> s]
         ELSE IF s.mask = None
         THEN [err |-> "AttributeError", out |-> s]
         ELSE LET subdata == Arr(s.data.dtype, PySlice(s.data.mem, sl))
              IN  [err |-> "ok",
                   out |-> SeriesNew(Len(subdata.data), s.dtype,
                                     BufferFromArray(subdata), s.mask, None)]
    ELSE LET newbuffer == BufferGetSlice(s.data, sl)
         IN  [err |-> "ok",
              out |-> SeriesNew(newbuffer.size, s.dtype, newbuffer, None, None)]

\* Series.__getitem__(arg) for a slice arg
SeriesGetSlice(s, sl) ==
    IF s.null_count > 0
    THEN IF sl.step # None /\ sl.step[1] # 1
         THEN [err |-> "NotImplementedError", out |-> s]
         ELSE IF s.mask = None
         THEN [err |-> "AttributeError", out |-> s]
         ELSE LET subdata == Arr(s.data.dtype, PySlice(s.data.mem, sl))
                  submask == Arr(s.mask[1].dtype,
                                 PySlice(s.mask[1].mem, MaskSlice(s, sl)))
              IN  [err |-> "ok",
                   out |-> SeriesNew(Len(subdata.data), s.dtype,
                                     BufferFromArray(subdata),
                                     Some(BufferFromArray(submask)), None)]
    ELSE LET newbuffer == BufferGetSlice(s.data, sl)
         IN  [err |-> "ok",
              out |-> SeriesNew(newbuffer.size, s.dtype, newbuffer, None, None)]

\* Series.__getitem__(arg) for an integer arg: the element, null (None)
\* when the mask bit is 0, or IndexError
SeriesGetItem(s, arg) ==
    LET val == BufferGetItem(s.data, arg)
    IN  IF val.kind = "IndexError" THEN val
        ELSE IF s.mask = None THEN val
        ELSE LET valid == MaskGet(s.mask[1], arg)
             IN  IF valid.kind = "IndexError" THEN valid
                 ELSE IF valid.val # 0 THEN val
                 ELSE [kind |-> "null", val |-> 0]

\* cudautils.copy_to_dense(data, mask): the elements of the valid rows, in
\* order (a row the mask does not reach counts as null)
RECURSIVE CopyToDense(_, _, _)
CopyToDense(data, mask, i) ==
    IF i >= Len(data) THEN <<>>
    ELSE LET bit == MaskGet(mask, i)
         IN  (IF bit.kind = "value" /\ bit.val = 1 THEN <<data[i + 1]>> ELSE <<>>)
                 \o CopyToDense(data, mask, i + 1)

\* Series.to_gpu_array(fillna=None): to_dense_buffer(None).to_gpu_array()
\* -- the data buffer without a mask, the valid rows alone with one
SeriesToGpuArray(s) ==
    IF HasNullMask(s)
    THEN Arr(s.data.dtype, CopyToDense(ToGpuArray(s.data), s.mask[1], 0))
    ELSE Arr(s.data.dtype, ToGpuArray(s.data))

\* a mutant of SeriesAppend: the receiver's mask is carried over to the
\* result
SeriesAppendKeepMask(s, other) ==
    LET newsize == SeriesLen(s) + SeriesLen(other)
        mem     == Arr(s.data.dtype, [i \in 1..newsize |-> 0])
        r1      == BufferExtend(BufferFromEmpty(mem),
                                Arr(s.data.dtype, ToGpuArray(s.data)))
        r2      == BufferExtend(r1.buf,
                                Arr(other.data.dtype, ToGpuArray(other.data)))
    IN  IF r1.err # "ok" THEN [err |-> r1.err, out |-> s]
        ELSE IF r2.err # "ok" THEN [err |-> r2.err, out |-> s]
        ELSE [err |-> "ok",
              out |-> SeriesNew(r2.buf.size, r2.buf.dtype, r2.buf, s.mask, None)]

\* Series.append(arbitrary) for a Series argument: a new Series over a
\* fresh buffer of len(self) + len(other) elements of self.data.dtype
SeriesAppend(s, other) ==
    LET newsize == SeriesLen(s) + SeriesLen(other)
        mem     == Arr(s.data.dtype, [i \in 1..newsize |-> 0])
        r1      == BufferExtend(BufferFromEmpty(mem),
                                Arr(s.data.dtype, ToGpuArray(s.data)))
        r2      == BufferExtend(r1.buf,
                                Arr(other.data.dtype, ToGpuArray(other.data)))
    IN  IF r1.err # "ok" THEN [err |-> r1.err, out |-> s]
        ELSE IF r2.err # "ok" THEN [err |-> r2.err, out |-> s]
        ELSE [err |-> "ok", out |-> SeriesFromBuffer(r2.buf)]

\* numpy dtype.kind
Kind(dtype) == IF dtype = "float64" THEN "f" ELSE IF dtype = "uint8" THEN "u" ELSE "i"

\* cudautils.apply_equal_constant(arr, val, dtype): 1 where the element
\* equals val, 0 elsewhere, as an array of dtype
ApplyEqualConstant(arr, val, dtype) ==
    Arr(dtype, [i \in 1..Len(arr.data) |-> IF arr.data[i] = val THEN 1 ELSE 0])

\* Series.one_hot_encoding(cats, dtype): one Series per category
SeriesOneHotEncoding(s, cats, dtype) ==
    IF Kind(s.dtype) \notin {"i", "u", "f"}
    THEN [err |-> "TypeError", out |-> <<>>]
    ELSE [err |-> "ok",
          out |-> [j \in 1..Len(cats) |->
                     SeriesFromArray(ApplyEqualConstant(SeriesToGpuArray(s),
                                                        cats[j], dtype))]]

\* np.nan, the fill value of to_dense_buffer(fillna='pandas'): floating
\* values are written as the integers they equal, NaN as a number that no
\* element and no cast of an element takes
NaN == -1000

\* Buffer.astype(dtype): self when the dtype is unchanged, else a new
\* Buffer over the cast of the whole memory
BufferAsType(b, dtype) ==
    IF b.dtype = dtype THEN b
    ELSE BufferFromArray(AsType(Arr(b.dtype, b.mem), dtype))

\* Series.astype(dtype): self when the dtype is unchanged, else a Series
\* over the cast data buffer, without the mask
SeriesAsType(s, dtype) ==
    IF dtype = s.dtype THEN s
    ELSE SeriesFromBuffer(BufferAsType(s.data, dtype))

\* cudautils.fillna(data, mask, value): the data with value in the rows
\* whose mask bit is 0
CudaFillna(data, mask, value) ==
    [i \in 1..Len(data) |->
        LET bit == MaskGet(mask, i - 1)
        IN  IF bit.kind = "value" /\ bit.val = 1 THEN data[i] ELSE value]

\* Series.fillna(value): self without a mask, else a dense Series
SeriesFillna(s, value) ==
    IF ~HasNullMask(s) THEN s
    ELSE SeriesFromArray(Arr(s.data.dtype,
                             CudaFillna(ToGpuArray(s.data), s.mask[1], value)))

\* Series._copy_to_dense_buffer: Buffer(mem, size=nnz, capacity=mem.size)
\* over the compacted valid rows
CopyToDenseBuffer(s) ==
    LET mem == CopyToDense(ToGpuArray(s.data), s.mask[1], 0)
    IN  BufferNew(Arr(s.data.dtype, mem), Some(Len(mem)), Some(Len(mem)))

\* Series.to_dense_buffer(fillna): fillna is None, 'pandas' or another
\* string; the result is the object the code returns, a Buffer or a Series
ToDenseBuffer(s, fillna) ==
    IF fillna \notin {None, Some("pandas")}
    THEN [err |-> "ValueError", res |-> [kind |-> "none", val |-> 0]]
    ELSE IF HasNullMask(s)
    THEN IF fillna = Some("pandas")
         THEN LET col == IF Kind(s.dtype) # "f"
                         THEN SeriesAsType(s, "float64") ELSE s
              IN  [err |-> "ok",
                   res |-> [kind |-> "Series", val |-> SeriesFillna(col, NaN)]]
         ELSE [err |-> "ok",
               res |-> [kind |-> "Buffer", val |-> CopyToDenseBuffer(s)]]
    ELSE [err |-> "ok", res |-> [kind |-> "Buffer", val |-> s.data]]

\* .to_gpu_array() of what to_dense_buffer returned
DenseArray(res) ==
    IF res.kind = "Series" THEN SeriesToGpuArray(res.val)
    ELSE Arr(res.val.dtype, ToGpuArray(res.val))

\* utils.get_numeric_type_info(dtype): the extremes of the type; those of
\* the 64-bit types are written as the largest magnitude the model's
\* integers take
NumericTypeInfo(dtype) ==
    IF dtype = "int8" THEN [min |-> -128, max |-> 127]
    ELSE IF dtype = "uint8" THEN [min |-> 0, max |-> 255]
    ELSE [min |-> 0 - (2 ^ 30), max |-> 2 ^ 30]

RECURSIVE ComputeMin(_, _)
\* cudautils.compute_min(arr, init)
ComputeMin(data, init) ==
    IF data = <<>> THEN init
    ELSE ComputeMin(Tail(data), Min(Head(data), init))

RECURSIVE ComputeMax(_, _)
\* cudautils.compute_max(arr, init)
ComputeMax(data, init) ==
    IF data = <<>> THEN init
    ELSE ComputeMax(Tail(data), Max(Head(data), init))

\* Series.min / Series.max: over to_dense_buffer().to_gpu_array()
SeriesMin(s) ==
    ComputeMin(SeriesToGpuArray(s).data, NumericTypeInfo(s.dtype).max)

SeriesMax(s) ==
    ComputeMax(SeriesToGpuArray(s).data, NumericTypeInfo(s.dtype).min)

\* cudautils.compute_scale(arr, vmin, vmax): (x - vmin) / (vmax - vmin) in
\* float64, each quotient written as <<numerator, denominator>>
ComputeScale(arr, vmin, vmax) ==
    Arr("float64", [i \in 1..Len(arr.data) |-> <<arr.data[i] - vmin, vmax - vmin>>])

\* Series.scale
SeriesScale(s) ==
    IF s.null_count # 0
    THEN [err |-> "NotImplementedError", out |-> s]
    ELSE [err |-> "ok",
          out |-> SeriesFromArray(ComputeScale(SeriesToGpuArray(s),
                                               SeriesMin(s), SeriesMax(s)))]

---------------------------------------------------------------------------
(* DataFrame *)

\* DataFrame(): no columns, row count 0
EmptyDF == [cols |-> <<>>, size |-> 0]

\* DataFrame.columns: the tuple of column names, in order
Columns(df) == [i \in 1..Len(df.cols) |-> df.cols[i].name]

\* name in self._cols
HasCol(df, name) == \E i \in 1..Len(df.cols) : df.cols[i].name = name

ColIdx(df, name) == CHOOSE i \in 1..Len(df.cols) : df.cols[i].name = name

\* DataFrame.__getitem__(name)
GetCol(df, name) == df.cols[ColIdx(df, name)].col

\* DataFrame.__len__
DfLen(df) == df.size

\* a mutant of SentryColumnSize: the size is checked on a table without
\* columns too
SentryColumnSizeAlways(df, size) == df.size # size

\* DataFrame._sentry_column_size: TRUE when it raises ValueError
SentryColumnSize(df, size) == Len(df.cols) > 0 /\ df.size # size

\* a mutant of AddColumn: the column is stored before the size is checked
AddColumnStoreFirst(df, name, series) ==
    IF HasCol(df, name)
    THEN [err |-> "NameError", df |-> df]
    ELSE LET stored == [df EXCEPT !.cols = Append(@, [name |-> name, col |-> series])]
         IN  IF SentryColumnSize(df, SeriesLen(series))
             THEN [err |-> "ValueError", df |-> stored]
             ELSE [err |-> "ok", df |-> [stored EXCEPT !.size = SeriesLen(series)]]

\* DataFrame.add_column(name, data) for a Series data (Series.from_any
\* returns a Series argument as it is)
AddColumn(df, name, series) ==
    IF HasCol(df, name)
    THEN [err |-> "NameError", df |-> df]
    ELSE IF SentryColumnSize(df, SeriesLen(series))
    THEN [err |-> "ValueError", df |-> df]
    ELSE [err |-> "ok",
          df |-> [cols |-> Append(df.cols, [name |-> name, col |-> series]),
                  size |-> SeriesLen(series)]]

\* a mutant of SetItem: the overwrite goes through the size check of
\* add_column
SetItemSentry(df, name, col) ==
    IF HasCol(df, name)
    THEN IF SentryColumnSize(df, SeriesLen(col))
         THEN [err |-> "ValueError", df |-> df]
         ELSE [err |-> "ok", df |-> [df EXCEPT !.cols[ColIdx(df, name)].col = col]]
    ELSE AddColumn(df, name, col)

\* DataFrame.__setitem__(name, col)
SetItem(df, name, col) ==
    IF HasCol(df, name)
    THEN [err |-> "ok", df |-> [df EXCEPT !.cols[ColIdx(df, name)].col = col]]
    ELSE AddColumn(df, name, col)

\* DataFrame.drop_column(name)
DropColumn(df, name) ==
    IF ~HasCol(df, name)
    THEN [err |-> "NameError", df |-> df]
    ELSE [err |-> "ok",
          df |-> [df EXCEPT !.cols = SelectSeq(@, LAMBDA c : c.name # name)]]

\* DataFrame.copy: a new table holding the same columns, set one by one
RECURSIVE CopyFrom(_, _, _)
CopyFrom(df, i, acc) ==
    IF i > Len(df.cols) THEN [err |-> "ok", df |-> acc]
    ELSE LET r == SetItem(acc, df.cols[i].name, df.cols[i].col)
         IN  IF r.err # "ok" THEN r ELSE CopyFrom(df, i + 1, r.df)

Copy(df) == CopyFrom(df, 1, EmptyDF)

\* the inner loop of concat: col = col.append(df[k]) for df in dfs
RECURSIVE AppendAll(_, _, _)
AppendAll(col, tables, k) ==
    IF tables = <<>> THEN [err |-> "ok", out |-> col]
    ELSE LET r == SeriesAppend(col, GetCol(Head(tables), k))
         IN  IF r.err # "ok" THEN r ELSE AppendAll(r.out, Tail(tables), k)

\* the outer loop of concat: newdf[k] = col for every column of self
RECURSIVE ConcatFrom(_, _, _, _)
ConcatFrom(df, tables, i, newdf) ==
    IF i > Len(df.cols) THEN [err |-> "ok", df |-> newdf]
    ELSE LET r == AppendAll(df.cols[i].col, tables, df.cols[i].name)
         IN  IF r.err # "ok" THEN [err |-> r.err, df |-> newdf]
             ELSE LET w == SetItem(newdf, df.cols[i].name, r.out)
                  IN  IF w.err # "ok" THEN w
                      ELSE ConcatFrom(df, tables, i + 1, w.df)

\* DataFrame.concat(*dfs): tables is the sequence of argument tables
Concat(df, tables) ==
    IF \E j \in 1..Len(tables) : Columns(tables[j]) # Columns(df)
    THEN [err |-> "ValueError", df |-> EmptyDF]
    ELSE ConcatFrom(df, tables, 1, EmptyDF)

\* str(cat) for the categories used
StrOf(cat) == IF cat = 0 THEN "0" ELSE IF cat = 1 THEN "1" ELSE "2"

\* prefix_sep.join([prefix, str(cat)]) for cat in cats
NewNames(prefix, prefix_sep, cats) ==
    [j \in 1..Len(cats) |-> prefix \o prefix_sep \o StrOf(cats[j])]

\* the loop of one_hot_encoding: outdf.add_column(name, col)
RECURSIVE AddAll(_, _, _, _)
AddAll(outdf, names, cols, j) ==
    IF j > Len(names) THEN [err |-> "ok", df |-> outdf]
    ELSE LET r == AddColumn(outdf, names[j], cols[j])
         IN  IF r.err # "ok" THEN r ELSE AddAll(r.df, names, cols, j + 1)

\* DataFrame.one_hot_encoding(column, prefix, cats, prefix_sep, dtype):
\* self after the call, and the table returned
OneHotEncoding(df, column, prefix, cats, prefix_sep, dtype) ==
    IF ~HasCol(df, column)
    THEN [err |-> "KeyError", self |-> df, out |-> EmptyDF]
    ELSE LET newcols == SeriesOneHotEncoding(GetCol(df, column), cats, dtype)
             outdf   == Copy(df)
         IN  IF newcols.err # "ok"
             THEN [err |-> newcols.err, self |-> df, out |-> EmptyDF]
             ELSE IF outdf.err # "ok"
             THEN [err |-> outdf.err, self |-> df, out |-> EmptyDF]
             ELSE LET r == AddAll(outdf.df, NewNames(prefix, prefix_sep, cats),
                                  newcols.out, 1)
                  IN  [err |-> r.err, self |-> df,
                       out |-> IF r.err = "ok" THEN r.df ELSE EmptyDF]

\* the names as_gpu_matrix selects: every column when columns is None
Selected(df, columns) == IF columns = None THEN Columns(df) ELSE columns[1]

\* column colidx of the matrix after matrix[:, colidx].copy_to_device(dense):
\* nrow elements of freshly allocated memory (holding g), the leading ones
\* overwritten by dense
MatrixColumn(nrow, dense, g) == CopyToDevice([i \in 1..nrow |-> g], 0, dense)

\* DataFrame.as_gpu_matrix(columns) / as_matrix(columns): the matrix is
\* kept by columns ("F" order).  `dtype != c.dtype`, with dtype the first
\* selected Series, compares c.dtype with that Series' dtype.
AsGpuMatrix(df, columns, g) ==
    LET names == Selected(df, columns)
        ncol  == Len(names)
        nrow  == DfLen(df)
        fail(e) == [err |-> e, matrix |-> None]
    IN  IF \E i \in 1..ncol : ~HasCol(df, names[i]) THEN fail("KeyError")
        ELSE IF ncol < 1 THEN fail("ValueError")
        ELSE IF nrow < 1 THEN fail("ValueError")
        ELSE IF \E i \in 1..ncol :
                   GetCol(df, names[i]).dtype # GetCol(df, names[1]).dtype
        THEN fail("ValueError")
        ELSE IF \E k \in 1..Len(df.cols) : HasNullMask(df.cols[k].col)
        THEN fail("ValueError")
        ELSE [err |-> "ok",
              matrix |-> Some(
                [dtype |-> GetCol(df, names[1]).dtype,
                 nrow  |-> nrow,
                 cols  |-> [i \in 1..ncol |->
                    MatrixColumn(nrow,
                        DenseArray(ToDenseBuffer(GetCol(df, names[i]),
                                                 Some("pandas")).res).data,
                        g)]])]

---------------------------------------------------------------------------
(* SpecBuffer: one Buffer under append / extend / integer indexing *)

\* arrays a Buffer is constructed from
BufArrays ==
    {Arr("int8", <<>>), Arr("int8", <<1, 2>>), Arr("int64", <<1, 300>>)}

\* values found in freshly allocated (uninitialised) device memory
Garbage == {0, 77}

\* device arrays handed to Buffer.from_empty
EmptyMems ==
    {Arr(d, [i \in 1..c |-> g]) : d \in Dtypes, c \in 0..MaxCap, g \in Garbage}

\* arrays handed to Buffer.extend
ExtArrays ==
    {Arr("int8", <<>>), Arr("int8", <<2>>), Arr("int64", <<300>>),
     Arr("int64", <<300, 5>>), Arr("int8", [i \in 1..(MaxCap + 1) |-> i])}

\* scalars handed to Buffer.append
Elements == {7, 300}

\* integer indices handed to Buffer.__getitem__
Indices == (0 - (MaxCap + 2))..(MaxCap + 1)

NoResult == [kind |-> "none", val |-> 0]

\* the history keeps the last two calls
Remember(h, rec) == IF Len(h) < 2 THEN Append(h, rec) ELSE <<h[2], rec>>

DfIdle ==
    /\ dfs = <<>>
    /\ last = <<>>
    /\ ret = <<>>

SerIdle ==
    /\ ser = <<>>
    /\ given = FALSE
    /\ sop = <<>>

BufIdle ==
    /\ buf = <<>>
    /\ cap0 = 0
    /\ bhist = <<>>

InitBuffer ==
    /\ buf \in {BufferFromArray(a) : a \in BufArrays}
                \cup {BufferFromEmpty(m) : m \in EmptyMems}
    /\ cap0 = buf.capacity
    /\ bhist = <<>>
    /\ DfIdle
    /\ SerIdle

BufAppend ==
    \E e \in Elements :
        LET r == BufferAppend(buf, e)
        IN  /\ buf' = r.buf
            /\ bhist' = Remember(bhist, [op |-> "append", arr |-> Arr("int64", <<e>>),
                                         idx |-> 0, err |-> r.err, pre |-> buf,
                                         res |-> NoResult])
            /\ UNCHANGED <<cap0, dfVars, serVars>>

BufExtend ==
    \E a \in ExtArrays :
        LET r == BufferExtend(buf, a)
        IN  /\ buf' = r.buf
            /\ bhist' = Remember(bhist, [op |-> "extend", arr |-> a,
                                         idx |-> 0, err |-> r.err, pre |-> buf,
                                         res |-> NoResult])
            /\ UNCHANGED <<cap0, dfVars, serVars>>

BufGetItem ==
    \E i \in Indices :
        LET r == BufferGetItem(buf, i)
        IN  /\ bhist' = Remember(bhist, [op |-> "getitem", arr |-> Arr(buf.dtype, <<>>),
                                         idx |-> i,
                                         err |-> IF r.kind = "IndexError"
                                                 THEN "IndexError" ELSE "ok",
                                         pre |-> buf, res |-> r])
            /\ UNCHANGED <<buf, cap0, dfVars, serVars>>

\* slices handed to Buffer.__getitem__
BufSlices ==
    [start : {None, Some(1)}, stop : {None, Some(-1)},
     step : {None, Some(1), Some(2)}]

BufGetSlice ==
    \E sl \in BufSlices :
        LET r == BufferGetSlice(buf, sl)
        IN  /\ bhist' = Remember(bhist, [op |-> "getslice", arr |-> Arr(buf.dtype, <<>>),
                                         idx |-> 0, err |-> "ok", pre |-> buf,
                                         res |-> NoResult, sl |-> sl, out |-> r])
            /\ UNCHANGED <<buf, cap0, dfVars, serVars>>

NextBuffer == BufAppend \/ BufExtend \/ BufGetItem \/ BufGetSlice

SpecBuffer == InitBuffer /\ [][NextBuffer]_vars

\* the last call on the Buffer
BLast == bhist[Len(bhist)]

\* the call before the last one
BPrev == bhist[1]

\* what a call on a Buffer writes: the only failure of append/extend is
\* the capacity error
IsWrite(h) == h.op \in {"append", "extend"}

---------------------------------------------------------------------------
(* Claims about Buffer, checked under SpecBuffer *)

\* C4: for every Buffer built by from_empty or from an array, after any
\* sequence of append and extend calls (successful or failing), size <=
\* capacity and capacity still equals the value fixed at construction.
C4_SizeWithinFixedCapacity ==
    /\ buf.size <= buf.capacity
    /\ buf.capacity = cap0

\* C4 witness: a Buffer that went through a failing write and then a
\* successful write of at least one element.
C4_Witness ==
    /\ Len(bhist) = 2
    /\ IsWrite(BPrev) /\ BPrev.err = "MemoryError"
    /\ IsWrite(BLast) /\ BLast.err = "ok" /\ Len(BLast.arr.data) > 0
    /\ buf.size = buf.capacity

\* C5: append(element) and extend(array) fail with the capacity error
\* exactly when the number of elements to write exceeds capacity - size,
\* and a failed call leaves size and the elements in [0,size) unchanged.
C5_CapacityErrorExactAndAtomic ==
    (Len(bhist) > 0 /\ IsWrite(BLast)) =>
        /\ BLast.err \in {"ok", "MemoryError"}
        /\ (BLast.err = "MemoryError")
              <=> (Len(BLast.arr.data) > BLast.pre.capacity - BLast.pre.size)
        /\ (BLast.err = "MemoryError") =>
              /\ buf.size = BLast.pre.size
              /\ ToGpuArray(buf) = ToGpuArray(BLast.pre)

\* C5 witness: an extend of two elements failed on a Buffer that holds an
\* element and has room for exactly one more.
C5_Witness ==
    /\ Len(bhist) > 0
    /\ BLast.op = "extend" /\ BLast.err = "MemoryError"
    /\ Len(BLast.arr.data) = 2
    /\ BLast.pre.size > 0
    /\ BLast.pre.capacity - BLast.pre.size = 1

\* the case of C6: the last two calls were extend(a) then extend(b) and
\* len(a) + len(b) <= capacity - size held before the first
C6_Case ==
    /\ Len(bhist) = 2
    /\ BPrev.op = "extend" /\ BLast.op = "extend"
    /\ Len(BPrev.arr.data) + Len(BLast.arr.data)
          <= BPrev.pre.capacity - BPrev.pre.size

\* C6 as stated: after extend(a) then extend(b) within capacity the dense
\* view equals the previous dense view followed by the elements of a and
\* then the elements of b, and size has grown by len(a) + len(b).
C6_DenseViewIsConcatOfInputs ==
    C6_Case =>
        /\ BPrev.err = "ok" /\ BLast.err = "ok"
        /\ buf.size = BPrev.pre.size + Len(BPrev.arr.data) + Len(BLast.arr.data)
        /\ ToGpuArray(buf)
              = ToGpuArray(BPrev.pre) \o BPrev.arr.data \o BLast.arr.data

\* C6 amended: after extend(a) then extend(b) within capacity the dense
\* view equals the previous dense view followed by the elements of a and
\* then of b, each cast to the Buffer's dtype (so the elements themselves
\* when a and b already have the Buffer's dtype), and size has grown by
\* len(a) + len(b).
C6_DenseViewIsConcatOfCastInputs ==
    C6_Case =>
        /\ BPrev.err = "ok" /\ BLast.err = "ok"
        /\ buf.size = BPrev.pre.size + Len(BPrev.arr.data) + Len(BLast.arr.data)
        /\ ToGpuArray(buf)
              = ToGpuArray(BPrev.pre) \o AsType(BPrev.arr, buf.dtype).data
                                      \o AsType(BLast.arr, buf.dtype).data
        /\ (BPrev.arr.dtype = buf.dtype /\ BLast.arr.dtype = buf.dtype) =>
              ToGpuArray(buf)
                = ToGpuArray(BPrev.pre) \o BPrev.arr.data \o BLast.arr.data

\* C6 witness: two successful non-empty extends onto a Buffer that already
\* held an element, the second with an array of another dtype.
C6_Witness ==
    /\ C6_Case
    /\ BPrev.pre.size > 0
    /\ Len(BPrev.arr.data) > 0 /\ Len(BLast.arr.data) > 0
    /\ BLast.arr.dtype # buf.dtype
    /\ buf.size = BPrev.pre.size + 2

\* C7: Buffer[i] normalizes a negative i to size + i and then either
\* returns the element at that position inside [0,size) or fails with
\* IndexError; every i whose normalized value lies outside [0,size),
\* including i < -size, raises IndexError and reads no element.
C7_IndexOutsideSizeRaises ==
    (Len(bhist) > 0 /\ BLast.op = "getitem") =>
        LET n == IF BLast.idx < 0 THEN BLast.pre.size + BLast.idx ELSE BLast.idx
        IN  IF n >= 0 /\ n < BLast.pre.size
            THEN BLast.res = [kind |-> "value", val |-> BLast.pre.mem[n + 1]]
            ELSE BLast.res.kind = "IndexError"

\* C14: range-slicing a Buffer with a step other than 1 fails with the
\* not-supported error and produces no Buffer; only step 1, or an absent
\* step, returns a sliced Buffer.
\* (The Buffers looked at hold at least two elements.)
C14_SteppedSliceRaises ==
    (bhist # <<>> /\ BLast.op = "getslice" /\ BLast.pre.size >= 2)
        => ((BLast.err = "ok") <=> (BLast.sl.step \in {None, Some(1)}))

---------------------------------------------------------------------------
(* SpecSeries: one Series under set_mask, range slicing and indexing *)

\* the data of a Series of n rows: row i holds 11 + i
SerData(n) == Arr("int64", [i \in 1..n |-> 10 + i])

\* which rows are null
Patterns == {"none", "first", "last", "odd", "all", "r3r8"}

\* the boolean validity array of n rows under a pattern (row i-1 at i)
Valid(p, n) ==
    [i \in 1..n |->
        CASE p = "none"  -> TRUE
          [] p = "first" -> i # 1
          [] p = "last"  -> i # n
          [] p = "odd"   -> i % 2 = 1
          [] p = "all"   -> FALSE
          [] OTHER       -> i \notin {4, 9}]

\* the null_count argument: absent, or an explicit number
NullCountArgs == {None, Some(0), Some(1)}

\* the step of a slice: absent, 1, or 2
Steps == {None, Some(1), Some(2)}

\* an optional slice bound for a Series of n rows
OptBounds(n) == {None} \cup {Some(i) : i \in 0..n}

NoSlice == [start |-> None, stop |-> None, step |-> None]

SopRec(op, src, sl, idx, err, out, res) ==
    [op |-> op, src |-> src, sl |-> sl, idx |-> idx, err |-> err,
     out |-> out, res |-> res]

InitSeries ==
    /\ \E n \in 0..MaxRows :
          \/ /\ ser = SeriesFromArray(SerData(n))
             /\ given = FALSE
          \/ \E p \in Patterns, nc \in NullCountArgs :
                /\ ser = SeriesFromMaskedArray(SerData(n),
                                               BoolmaskToBitmask(Valid(p, n)), nc)
                /\ given = (nc # None)
    /\ sop = SopRec("init", ser, NoSlice, 0, "ok", ser, NoResult)
    /\ DfIdle
    /\ BufIdle

SerSetMask ==
    \E p \in Patterns, nc \in NullCountArgs :
        /\ ser' = SetMask(ser, BoolmaskToBitmask(Valid(p, SeriesLen(ser))), nc)
        /\ given' = (nc # None)
        /\ sop' = SopRec("set_mask", ser', NoSlice, 0, "ok", ser', NoResult)
        /\ UNCHANGED <<dfVars, bufVars>>

\* Slicing and indexing leave the Series as it is, so a read that follows
\* a read reaches nothing that the read alone does not: reads are taken
\* from the states that construction and set_mask produce.
Fresh == sop.op \in {"init", "set_mask", "astype"}

SerSlice ==
    /\ Fresh
    /\ \E start \in OptBounds(SeriesLen(ser)), stop \in OptBounds(SeriesLen(ser)),
          step \in Steps :
         LET sl == [start |-> start, stop |-> stop, step |-> step]
             r  == SeriesGetSlice(ser, sl)
         IN  /\ sop' = SopRec("slice", ser, sl, 0, r.err, r.out, NoResult)
             /\ UNCHANGED <<ser, given, dfVars, bufVars>>

SerGetItem ==
    /\ Fresh
    /\ \E i \in (0 - (SeriesLen(ser) + 1))..SeriesLen(ser) :
         LET r == SeriesGetItem(ser, i)
         IN  /\ sop' = SopRec("getitem", ser, NoSlice, i,
                              IF r.kind = "IndexError" THEN "IndexError" ELSE "ok",
                              ser, r)
             /\ UNCHANGED <<ser, given, dfVars, bufVars>>

\* dtypes handed to Series.astype
SerDtypes == {"int8", "int64", "float64"}

\* fillna arguments handed to Series.to_dense_buffer
FillnaArgs == {None, Some("pandas"), Some("zero")}

\* Series handed to Series.append
SerOthers ==
    {SeriesFromArray(Arr("int8", <<>>)),
     SeriesFromArray(Arr("int64", <<300, 5>>)),
     SeriesFromMaskedArray(Arr("int8", <<3, 4>>),
                           BoolmaskToBitmask(<<TRUE, FALSE>>), None)}

SerAsType ==
    \E d \in SerDtypes :
        /\ Fresh
        /\ d # ser.dtype
        /\ ser' = SeriesAsType(ser, d)
        /\ given' = FALSE
        /\ sop' = SopRec("astype", ser', NoSlice, 0, "ok", ser', NoResult)
        /\ UNCHANGED <<dfVars, bufVars>>

SerToDenseBuffer ==
    \E f \in FillnaArgs :
        LET r == ToDenseBuffer(ser, f)
        IN  /\ Fresh
            /\ sop' = [op |-> "to_dense_buffer", src |-> ser, sl |-> NoSlice,
                       idx |-> 0, err |-> r.err, out |-> ser, res |-> r.res,
                       fillna |-> f]
            /\ UNCHANGED <<ser, given, dfVars, bufVars>>

SerScale ==
    LET r == SeriesScale(ser)
    IN  /\ Fresh
        /\ sop' = SopRec("scale", ser, NoSlice, 0, r.err, r.out, NoResult)
        /\ UNCHANGED <<ser, given, dfVars, bufVars>>

SerAppend ==
    \E o \in SerOthers :
        LET r == SeriesAppend(ser, o)
        IN  /\ Fresh
            /\ sop' = [op |-> "append", src |-> ser, sl |-> NoSlice,
                       idx |-> 0, err |-> r.err, out |-> r.out,
                       res |-> NoResult, other |-> o]
            /\ UNCHANGED <<ser, given, dfVars, bufVars>>

NextSeries ==
    \/ SerSetMask \/ SerSlice \/ SerGetItem
    \/ SerAsType \/ SerToDenseBuffer \/ SerScale \/ SerAppend

SpecSeries == InitSeries /\ [][NextSeries]_vars

---------------------------------------------------------------------------
(* Claims about Series, checked under SpecSeries *)

\* the rows in [0,size) whose mask bit is 0
NullRows(s) ==
    {i \in 0..(s.size - 1) : MaskGet(s.mask[1], i) = [kind |-> "value", val |-> 0]}

\* a masked Series whose mask covers its rows and whose null_count is the
\* number of its null rows
Accurate(s) ==
    /\ HasNullMask(s)
    /\ Len(s.mask[1].mem) >= CalcChunkSize(s.size, MaskBitsize)
    /\ s.null_count = Cardinality(NullRows(s))

\* the start and the stop of the last slice as numbers
SopStart == IF sop.sl.start = None THEN 0 ELSE sop.sl.start[1]

SopStop == IF sop.sl.stop = None THEN SeriesLen(sop.src) ELSE sop.sl.stop[1]

\* the case of C9: the last call sliced a masked Series with an accurate
\* null_count by start:stop, step 1, 0 <= start <= stop <= len, start a
\* multiple of 8
C9_Case ==
    /\ sop.op = "slice"
    /\ Accurate(sop.src)
    /\ sop.sl.step \in {None, Some(1)}
    /\ 0 <= SopStart /\ SopStart <= SopStop /\ SopStop <= SeriesLen(sop.src)
    /\ SopStart % MaskBitsize = 0

\* C9: for a masked Series with an accurate null_count and a range
\* start:stop (step 1, 0 <= start <= stop <= len, start a multiple of 8),
\* reading element i of series[start:stop] gives the same result (the same
\* value, or null) as reading element start + i of the unsliced Series,
\* for every i in [0, stop - start).
C9_AlignedSliceReadsLikeSource ==
    C9_Case =>
        /\ sop.err = "ok"
        /\ \A i \in 0..(SopStop - SopStart - 1) :
              /\ SeriesGetItem(sop.out, i) = SeriesGetItem(sop.src, SopStart + i)
              /\ SeriesGetItem(sop.out, i).kind \in {"value", "null"}

\* C9 witness: a slice starting at row 8 of a Series with nulls, whose
\* first row is null and whose second row is a value.
C9_Witness ==
    /\ C9_Case
    /\ SopStart = 8 /\ SopStop >= 10
    /\ sop.src.null_count > 0
    /\ SeriesGetItem(sop.out, 0).kind = "null"
    /\ SeriesGetItem(sop.out, 1) = [kind |-> "value", val |-> 20]

\* null_count of a masked Series is the number of its null rows
NullCountIsNullRows(s) ==
    /\ s.null_count = Cardinality(NullRows(s))
    /\ 0 <= s.null_count /\ s.null_count <= s.size

\* C10: for every Series that carries a mask and whose null_count was not
\* passed explicitly (built by the constructor, by set_mask without
\* null_count, or by range-slicing a masked Series), null_count equals the
\* number of rows in [0,size) whose mask bit is 0, and 0 <= null_count <=
\* size.
\* (The slices looked at are the byte-aligned ones of C9, taken from a
\* Series whose own null_count is accurate, whose mask reaches every row
\* of the slice.)
C10_NullCountCountsNullRows ==
    /\ (HasNullMask(ser) /\ ~given) => NullCountIsNullRows(ser)
    /\ (C9_Case /\ sop.err = "ok" /\ HasNullMask(sop.out)
          /\ Len(sop.out.mask[1].mem) >= CalcChunkSize(sop.out.size, MaskBitsize))
          => NullCountIsNullRows(sop.out)

\* the last call was to_dense_buffer(fillna='pandas') on a Series of
\* non-floating dtype whose mask covers its rows and has a null row
C11_Case ==
    /\ sop.op = "to_dense_buffer"
    /\ sop.fillna = Some("pandas")
    /\ Kind(sop.src.dtype) # "f"
    /\ HasNullMask(sop.src)
    /\ Len(sop.src.mask[1].mem) >= CalcChunkSize(sop.src.size, MaskBitsize)
    /\ NullRows(sop.src) # {}

\* C11: to_dense_buffer(fillna='pandas') on a Series of non-floating dtype
\* with a mask that has a null row yields a floating-point result of as
\* many elements as the Series, NaN in every null row and the cast of the
\* original value in every valid row.
C11_PandasFillHoldsNaNInNullRows ==
    C11_Case =>
        /\ sop.err = "ok"
        /\ LET a == DenseArray(sop.res)
           IN  /\ Kind(a.dtype) = "f"
               /\ Len(a.data) = sop.src.size
               /\ \A i \in 1..sop.src.size :
                     a.data[i] = IF (i - 1) \in NullRows(sop.src)
                                 THEN NaN
                                 ELSE Cast(sop.src.data.mem[i], "float64")

\* C12: scale() fails with the not-supported error on every Series that
\* carries a null mask, whatever its null_count (a mask in which every row
\* is valid included), and returns no rescaled Series for it.
\* (The Series looked at have at least two rows and a null_count computed
\* from the mask.)
C12_ScaleRefusesMaskedSeries ==
    (sop.op = "scale" /\ HasNullMask(sop.src) /\ sop.src.size >= 2 /\ ~given)
        => sop.err = "NotImplementedError"

\* the Column invariants on size and mask: size is the data buffer's size
\* and a mask has ceil(size / 8) elements
ColumnInvariants(s) ==
    /\ s.size = s.data.size
    /\ HasNullMask(s) => s.mask[1].size = CalcChunkSize(s.size, MaskBitsize)

\* the last call was a range slice with step 1 (or none) and bounds
\* 0 <= start < stop <= len of a Series that satisfies the Column
\* invariants, its null_count included
C15_Case ==
    /\ sop.op = "slice"
    /\ sop.sl.step \in {None, Some(1)}
    /\ 0 <= SopStart /\ SopStart < SopStop /\ SopStop <= SeriesLen(sop.src)
    /\ ColumnInvariants(sop.src)
    /\ sop.src.null_count =
          IF HasNullMask(sop.src) THEN Cardinality(NullRows(sop.src)) ELSE 0

\* C15: a Series obtained by range-slicing (step 1, 0 <= start <= stop <=
\* len) a Series that satisfies the Column invariants satisfies them
\* again: its size is its data buffer's size and, when it carries a mask,
\* the mask has ceil(size / 8) elements.
\* (The slices looked at are the non-empty ones.)
C15_SlicePreservesColumnInvariants ==
    C15_Case => (sop.err = "ok" /\ ColumnInvariants(sop.out))

\* what the original and the amended statement of C16 share: the length,
\* no mask, unchanged operands, an exactly full data buffer
AppendFrame ==
    /\ sop.err = "ok"
    /\ SeriesLen(sop.out) = SeriesLen(sop.src) + SeriesLen(sop.other)
    /\ ~HasNullMask(sop.out)
    /\ sop.out.null_count = 0
    /\ ser = sop.src
    /\ sop.out.data.size = sop.out.data.capacity

\* C16 as stated: append(other) returns a new Series of length
\* len(self) + len(other) whose data is self's data followed by other's
\* data, without a mask and with null_count 0 even when an operand has
\* nulls; the operands are unchanged and the new data buffer is exactly
\* full.
C16_AppendIsSelfThenOther ==
    (sop.op = "append") =>
        /\ AppendFrame
        /\ ToGpuArray(sop.out.data)
              = ToGpuArray(sop.src.data) \o ToGpuArray(sop.other.data)

\* C16 amended: the data is self's data followed by other's data cast,
\* element by element, to the dtype of self's data buffer.
C16_AppendIsSelfThenCastOther ==
    (sop.op = "append") =>
        /\ AppendFrame
        /\ ToGpuArray(sop.out.data)
              = ToGpuArray(sop.src.data)
                  \o AsType(Arr(sop.other.data.dtype, ToGpuArray(sop.other.data)),
                            sop.src.data.dtype).data

\* C16 witness: a masked int8 Series with a null row was appended an int64
\* Series whose first value does not fit int8.
C16_Witness ==
    /\ sop.op = "append" /\ sop.err = "ok"
    /\ sop.src.dtype = "int8" /\ sop.src.size >= 2
    /\ HasNullMask(sop.src) /\ sop.src.null_count > 0
    /\ sop.other.dtype = "int64" /\ sop.other.size = 2
    /\ sop.out.data.mem[sop.src.size + 1] = 44

---------------------------------------------------------------------------
(* Spec: two tables under add_column, item assignment, drop_column,       *)
(* concat and one_hot_encoding                                            *)

TableIds == {"A", "B"}

Names == {"x", "p_0"}

\* the Series handed to add_column and to item assignment: one row; two
\* rows of another dtype; two rows, the second null
ColPool ==
    {SeriesFromArray(Arr("int8", <<1>>)),
     SeriesFromArray(Arr("int64", <<1, 300>>)),
     SeriesFromMaskedArray(Arr("int8", <<0, 1>>),
                           BoolmaskToBitmask(<<TRUE, FALSE>>), None)}

\* the argument lists of concat
ArgLists == UNION {[1..n -> TableIds] : n \in 0..MaxArgs}

\* the category lists of one_hot_encoding
CatsArgs == UNION {[1..n -> {0, 1}] : n \in 1..MaxCats}

LastRec(op, t, name, col, args, cats, err) ==
    [op |-> op, t |-> t, name |-> name, col |-> col, args |-> args,
     cats |-> cats, err |-> err]

Init ==
    /\ dfs = [t \in TableIds |-> EmptyDF]
    /\ last = LastRec("init", "A", "", None, <<>>, <<>>, "ok")
    /\ ret = None
    /\ BufIdle
    /\ SerIdle

\* A call that fails, and a call that returns a new table, leave the
\* tables as they are, so a call that follows one reaches nothing that the
\* call alone does not: calls are taken from the initial state and from
\* the states that a successful add, assignment or drop produces.
Settled ==
    \/ last.op = "init"
    \/ last.err = "ok" /\ last.op \in {"add_column", "setitem", "drop_column"}

DfAddColumn ==
    /\ Settled
    /\ \E t \in TableIds, name \in Names, c \in ColPool :
         LET r == AddColumn(dfs[t], name, c)
         IN  /\ dfs' = [dfs EXCEPT ![t] = r.df]
             /\ last' = LastRec("add_column", t, name, Some(c), <<>>, <<>>, r.err)
             /\ ret' = None
             /\ UNCHANGED <<bufVars, serVars>>

DfSetItem ==
    /\ Settled
    /\ \E t \in TableIds, name \in Names, c \in ColPool :
         LET r == SetItem(dfs[t], name, c)
         IN  /\ dfs' = [dfs EXCEPT ![t] = r.df]
             /\ last' = LastRec("setitem", t, name, Some(c), <<>>, <<>>, r.err)
             /\ ret' = None
             /\ UNCHANGED <<bufVars, serVars>>

DfDropColumn ==
    /\ Settled
    /\ \E t \in TableIds, name \in Names :
         LET r == DropColumn(dfs[t], name)
         IN  /\ dfs' = [dfs EXCEPT ![t] = r.df]
             /\ last' = LastRec("drop_column", t, name, None, <<>>, <<>>, r.err)
             /\ ret' = None
             /\ UNCHANGED <<bufVars, serVars>>

DfConcat ==
    /\ Settled
    /\ \E t \in TableIds, args \in ArgLists :
         LET r == Concat(dfs[t], [j \in 1..Len(args) |-> dfs[args[j]]])
         IN  /\ dfs' = dfs
             /\ last' = LastRec("concat", t, "", None, args, <<>>, r.err)
             /\ ret' = IF r.err = "ok" THEN Some(r.df) ELSE None
             /\ UNCHANGED <<bufVars, serVars>>

DfOneHotEncoding ==
    /\ Settled
    /\ \E t \in TableIds, column \in Names, cats \in CatsArgs :
         LET r == OneHotEncoding(dfs[t], column, "p", cats, "_", "float64")
         IN  /\ dfs' = [dfs EXCEPT ![t] = r.self]
             /\ last' = LastRec("one_hot_encoding", t, column, None, <<>>, cats,
                                r.err)
             /\ ret' = IF r.err = "ok" THEN Some(r.out) ELSE None
             /\ UNCHANGED <<bufVars, serVars>>

\* the columns arguments of as_matrix: None, or a list of names
ColumnsArgs ==
    {None} \cup {Some(q) : q \in UNION {[1..n -> Names] : n \in 0..Cardinality(Names)}}

DfAsMatrix ==
    /\ Settled
    /\ \E t \in TableIds, columns \in ColumnsArgs, g \in Garbage :
         LET r == AsGpuMatrix(dfs[t], columns, g)
         IN  /\ dfs' = dfs
             /\ last' = [op |-> "as_matrix", t |-> t, name |-> "", col |-> None,
                         args |-> <<>>, cats |-> <<>>, err |-> r.err,
                         columns |-> columns]
             /\ ret' = r.matrix
             /\ UNCHANGED <<bufVars, serVars>>

Next ==
    \/ DfAddColumn \/ DfSetItem \/ DfDropColumn \/ DfConcat \/ DfOneHotEncoding
    \/ DfAsMatrix

Spec == Init /\ [][Next]_vars

---------------------------------------------------------------------------
(* Claims about DataFrame, checked under Spec.  In a step the unprimed    *)
(* dfs is the state before the call and last' holds the call.             *)

\* C1: in every state reachable from an empty DataFrame by add_column,
\* drop_column and item assignment (for new and for existing names), every
\* column held by the table has length equal to the row count len(df).
C1_ColumnsHaveRowCount ==
    \A t \in TableIds : \A i \in 1..Len(dfs[t].cols) :
        SeriesLen(dfs[t].cols[i].col) = DfLen(dfs[t])

\* what C2 says of a call add_column(name, data) on the table pre that
\* ended with err and left the table post
AddColumnOutcome(pre, post, name, data, err) ==
    /\ err \in {"ok", "NameError", "ValueError"}
    /\ (err = "NameError") <=> HasCol(pre, name)
    /\ (err = "ValueError")
          <=> /\ ~HasCol(pre, name)
              /\ Len(pre.cols) >= 1
              /\ SeriesLen(data) # DfLen(pre)
    /\ (err = "ok") =>
          /\ Columns(post) = Append(Columns(pre), name)
          /\ post.cols[Len(post.cols)].col = data
          /\ SubSeq(post.cols, 1, Len(pre.cols)) = pre.cols
          /\ DfLen(post) = SeriesLen(data)

\* C2: add_column(name, data) fails with the name-conflict error exactly
\* when name is already a column, and otherwise fails with the
\* size-mismatch error exactly when the table has at least one column and
\* len(data) differs from the row count; in every other case it succeeds,
\* the new name becomes the last column and the row count equals
\* len(data).
C2_AddColumnOutcome ==
    [][(last'.op = "add_column") =>
          AddColumnOutcome(dfs[last'.t], dfs'[last'.t], last'.name,
                           last'.col[1], last'.err)]_vars

\* C2 witness: add_column succeeded with a column of two rows as the only
\* column of its table and set the row count to 2, while the other table
\* holds two columns of one row.
C2_Witness ==
    /\ last.op = "add_column" /\ last.err = "ok"
    /\ Len(dfs[last.t].cols) = 1
    /\ DfLen(dfs[last.t]) = 2
    /\ \E u \in TableIds : u # last.t /\ Len(dfs[u].cols) = 2 /\ DfLen(dfs[u]) = 1

\* C3: whenever a DataFrame operation fails (add_column with a duplicate
\* name or a mismatched length, drop_column of an absent name, concat with
\* a mismatching column-name tuple, one_hot_encoding whose generated name
\* collides with an existing column), the receiving table and every
\* argument table are exactly as before the call: same names, same order,
\* same columns, same row count.
C3_FailureLeavesTablesUnchanged ==
    [][(last'.err # "ok") => (dfs' = dfs)]_vars

\* C3 witness: one_hot_encoding added one generated column to its copy
\* and failed on the next, whose name was already a column.
C3_Witness ==
    /\ last.op = "one_hot_encoding" /\ last.err = "NameError"
    /\ last.cats = <<1, 0>>
    /\ Columns(dfs[last.t]) = <<"x", "p_0">>

\* the receiver and the argument tables of the last concat (concat leaves
\* the tables as they are)
ConcatSelf == dfs[last.t]

ConcatArgs == [j \in 1..Len(last.args) |-> dfs[last.args[j]]]

\* C8 (its first half): concat(*tables) succeeds exactly when every
\* argument table's column-name tuple equals the receiver's (same names in
\* the same order).
C8_ConcatSucceedsIffNamesMatch ==
    (last.op = "concat") =>
        ((last.err = "ok")
            <=> \A j \in 1..Len(ConcatArgs) :
                   Columns(ConcatArgs[j]) = Columns(ConcatSelf))

\* the table as_matrix was called on, and the columns it selected
MatrixTable == dfs[last.t]

MatrixNames == Selected(MatrixTable, last.columns)

\* the last call was as_matrix on a table whose columns all have len(df)
\* rows, selecting columns of the table
C13_Case ==
    /\ last.op = "as_matrix"
    /\ \A k \in 1..Len(MatrixTable.cols) :
          SeriesLen(MatrixTable.cols[k].col) = DfLen(MatrixTable)
    /\ \A i \in 1..Len(MatrixNames) : HasCol(MatrixTable, MatrixNames[i])

\* C13: as_matrix(columns) succeeds whenever at least one column is
\* selected, the table has at least one row, all selected columns have the
\* same dtype and no selected column carries a null mask; it fails with
\* ValueError in every other case; a mask on a column that is not selected
\* causes no failure.
C13_AsMatrixSucceedsIffSelectionDense ==
    C13_Case =>
        /\ (last.err = "ok") <=>
              /\ Len(MatrixNames) >= 1
              /\ DfLen(MatrixTable) >= 1
              /\ \A i, j \in 1..Len(MatrixNames) :
                    GetCol(MatrixTable, MatrixNames[i]).dtype
                        = GetCol(MatrixTable, MatrixNames[j]).dtype
              /\ \A i \in 1..Len(MatrixNames) :
                    ~HasNullMask(GetCol(MatrixTable, MatrixNames[i]))
        /\ (last.err # "ok") => (last.err = "ValueError")

\* what df[name] = col does to a table that has a column name
SetItemOverwrites(pre, post, name, col, err) ==
    /\ err = "ok"
    /\ Columns(post) = Columns(pre)
    /\ DfLen(post) = DfLen(pre)
    /\ \A i \in 1..Len(pre.cols) :
          post.cols[i].col = IF pre.cols[i].name = name
                             THEN col ELSE pre.cols[i].col

\* C17: df[name] = col with name already a column always succeeds,
\* whatever the length of col; it replaces that column alone, in its
\* position in the column order, and leaves every other column and the
\* row count len(df) unchanged (the other table too).
C17_AssignExistingOverwritesInPlace ==
    [][(last'.op = "setitem" /\ HasCol(dfs[last'.t], last'.name)) =>
          /\ SetItemOverwrites(dfs[last'.t], dfs'[last'.t], last'.name,
                               last'.col[1], last'.err)
          /\ \A u \in TableIds \ {last'.t} : dfs'[u] = dfs[u]]_vars

\* C17 witness: the first of two columns was overwritten by a column
\* whose length is not the table's row count.
C17_Witness ==
    /\ last.op = "setitem" /\ last.err = "ok"
    /\ Len(dfs[last.t].cols) = 2
    /\ dfs[last.t].cols[1].name = last.name
    /\ dfs[last.t].cols[1].col = last.col[1]
    /\ SeriesLen(last.col[1]) # DfLen(dfs[last.t])
    /\ SeriesLen(dfs[last.t].cols[2].col) = DfLen(dfs[last.t])

====
